---- MODULE Spec2Model ----
(***************************************************************************)
(* DIY_on_kata: a minimal GTP engine (gtp.py) driving a naive MCTS         *)
(* (mcts.py) over an external evaluator (neuralnet.py).                    *)
(*                                                                         *)
(* Numbers that are Python floats in the source (win rates, priors, the    *)
(* genmove budget) are exact rationals <<num, den>> here, den > 0, kept    *)
(* in lowest terms; binary64 rounding is not modelled.                     *)
(* Python's None is the record field isNone = TRUE.                        *)
(***************************************************************************)
EXTENDS Integers, Sequences, FiniteSets, TLC

VARIABLES
    pipe,          \* lines the client has written that the process has not read (OS side of stdin)
    closed,        \* the client has closed its end of stdin
    buf,           \* lines read into sys.stdin's buffer and not yet yielded to run_gtp
    pc,            \* where the process is: idle, genmove, an_check, an_playout, stopped, crashed
    crash,         \* the uncaught exception that ended the process ("" while it lives)
    move_history,  \* gtp.py: move_history
    query_parameter, \* neuralnet.py: the fields of query_parameter the handlers set
    genmove_sec,   \* gtp.py: genmove_sec, in seconds, a rational
    out,           \* the lines printed for the command being answered
    tree,          \* the search tree of the running genmove or lz_analyze: path -> node
    search,        \* the locals of the running search (player, clock, stop_time, ...)
    hist           \* history variables: what earlier steps did (read by the properties only)

vars == <<pipe, closed, buf, pc, crash, move_history, query_parameter,
          genmove_sec, out, tree, search, hist>>

-----------------------------------------------------------------------------
(* Bounds of the model *)

\* playouts explored in one search of the protocol model
MaxPlayouts == 2
\* playouts explored in the search-only model
MaxSearch == 4
\* lines the client writes in one run
MaxSend == 3

-----------------------------------------------------------------------------
(* Exact rationals *)

Abs(x) == IF x < 0 THEN -x ELSE x

RECURSIVE Gcd(_, _)
Gcd(a, b) == IF b = 0 THEN a ELSE Gcd(b, a % b)

Rat(n, d) ==
    LET s == IF d < 0 THEN -1 ELSE 1
        g == Gcd(Abs(n), Abs(d))
    IN  <<(s * n) \div g, (s * d) \div g>>

RAdd(x, y) == Rat(x[1] * y[2] + y[1] * x[2], x[2] * y[2])
RSub(x, y) == Rat(x[1] * y[2] - y[1] * x[2], x[2] * y[2])
RMul(x, y) == Rat(x[1] * y[1], x[2] * y[2])
RDivInt(x, k) == Rat(x[1], x[2] * k)
RLess(x, y) == x[1] * y[2] < y[1] * x[2]
RSign(x) == IF x[1] > 0 THEN 1 ELSE IF x[1] < 0 THEN -1 ELSE 0
RZero == <<0, 1>>
ROne == <<1, 1>>

-----------------------------------------------------------------------------
(* mcts.py: nodes.  A tree is a function from paths (the locations from    *)
(* the root) to nodes; child_by_location is the sequence of its keys in    *)
(* insertion order, the child itself being the node at the longer path.    *)

None == [isNone |-> TRUE, val |-> <<>>]
Some(v) == [isNone |-> FALSE, val |-> v]

make_node ==
    [visits |-> 0,
     child_by_location |-> <<>>,
     policy_by_location |-> None,
     black_winrate |-> None]

Root == <<>>

NewTree == (Root :> make_node)

\* a dict's keys, in iteration order; a policy is a sequence of <<location, prior>>
Keys(policy) == [i \in 1..Len(policy) |-> policy[i][1]]

InSeq(x, s) == \E i \in 1..Len(s) : s[i] = x

PriorOf(policy, location) ==
    LET i == CHOOSE j \in 1..Len(policy) : policy[j][1] = location
    IN  policy[i][2]

HasChild(t, path, location) == InSeq(location, t[path].child_by_location)

\* find_child: the child, or None
find_child(t, path, location) ==
    IF HasChild(t, path, location) THEN Some(t[Append(path, location)]) ELSE None

\* _get_child: the tree with the child created when absent
get_child(t, path, location) ==
    IF HasChild(t, path, location)
    THEN t
    ELSE [t EXCEPT ![path].child_by_location = Append(@, location)]
             @@ (Append(path, location) :> make_node)

has_child(t, path) == t[path].child_by_location # <<>>

\* _is_expanded: bool(policy_by_location); None and the empty dict are both false
is_expanded(node) ==
    ~node.policy_by_location.isNone /\ node.policy_by_location.val # <<>>

opponent(player) == IF player = "B" THEN "W" ELSE "B"

winrate_for_player(black_winrate, player) ==
    IF player = "B" THEN black_winrate ELSE RSub(ROne, black_winrate)

-----------------------------------------------------------------------------
(* mcts.py: node selection *)

c_puct == 1

value_for_unexpanded_move == RZero

\* _mcts_priority: the value v + c_puct * sqrt(N) * p / (n + 1), kept as its
\* parts [v, N, q] with q = c_puct * p / (n + 1), since sqrt(N) is irrational
mcts_priority(t, path, player, location) ==
    LET node == t[path]
        p == PriorOf(node.policy_by_location.val, location)
        child == find_child(t, path, location)
        n == IF child.isNone THEN 0 ELSE child.val.visits
        v == IF child.isNone
             THEN value_for_unexpanded_move
             ELSE winrate_for_player(child.val.black_winrate.val, player)
    IN  [v |-> v, N |-> node.visits, q |-> RDivInt(RMul(<<c_puct, 1>>, p), n + 1)]

\* x.v + sqrt(N) * x.q > y.v + sqrt(N) * y.q, decided exactly: with
\* a = x.v - y.v and b = y.q - x.q it is a > sqrt(N) * b
PriorityGreater(x, y) ==
    LET a == RSub(x.v, y.v)
        b == RSub(y.q, x.q)
        sa == RSign(a)
        sb == IF x.N = 0 THEN 0 ELSE RSign(b)
        a2 == RMul(a, a)
        nb2 == RMul(<<x.N, 1>>, RMul(b, b))
    IN  CASE sa >= 0 /\ sb <= 0 -> sa > 0 \/ sb < 0
          [] sa >= 0 /\ sb > 0  -> RLess(nb2, a2)
          [] sa < 0 /\ sb >= 0  -> FALSE
          [] OTHER              -> RLess(a2, nb2)

\* max(locations, key=priority): the first location of the greatest priority
RECURSIVE MaxFrom(_, _, _, _, _, _)
MaxFrom(t, path, player, keys, i, best) ==
    IF i > Len(keys)
    THEN best
    ELSE MaxFrom(t, path, player, keys, i + 1,
                 IF PriorityGreater(mcts_priority(t, path, player, keys[i]),
                                    mcts_priority(t, path, player, best))
                 THEN keys[i] ELSE best)

\* _select_location taking the first key of the policy
select_location_first_key(t, path, player) == Keys(t[path].policy_by_location.val)[1]

select_location(t, path, player) ==
    LET locations == Keys(t[path].policy_by_location.val)
    IN  MaxFrom(t, path, player, locations, 2, locations[1])

-----------------------------------------------------------------------------
(* mcts.py: playout *)

\* _descend_to_leaf, from `path` on: [tree, leaf, moves]; the ancestors are the
\* nodes at the proper prefixes of leaf, root first
RECURSIVE descend(_, _, _, _)
descend(t, path, next_player, moves) ==
    IF is_expanded(t[path])
    THEN LET location == select_location(t, path, next_player)
         IN  descend(get_child(t, path, location), Append(path, location),
                     opponent(next_player), Append(moves, <<next_player, location>>))
    ELSE [tree |-> t, leaf |-> path, moves |-> moves]

descend_to_leaf(t, player) == descend(t, Root, player, <<>>)

\* the ancestors without the root
Ancestors_below_root(leaf) == [k \in 1..(Len(leaf) - 1) |-> SubSeq(leaf, 1, k)]

Ancestors(leaf) == [k \in 1..Len(leaf) |-> SubSeq(leaf, 1, k - 1)]

\* expand_leaf without `leaf['visits'] = 1`
expand_leaf_keeps_visits(t, leaf, leaf_eval) ==
    [t EXCEPT ![leaf].policy_by_location = Some(leaf_eval.policy_by_location),
              ![leaf].black_winrate = Some(leaf_eval.black_winrate)]

expand_leaf(t, leaf, leaf_eval) ==
    [t EXCEPT ![leaf].policy_by_location = Some(leaf_eval.policy_by_location),
              ![leaf].black_winrate = Some(leaf_eval.black_winrate),
              ![leaf].visits = 1]

\* the turn of the loop without `node['visits'] += 1`
update_node_keeps_visits(node, leaf_eval) ==
    LET delta == RSub(leaf_eval.black_winrate, node.black_winrate.val)
    IN  [node EXCEPT !.black_winrate = Some(RAdd(node.black_winrate.val,
                                                 RDivInt(delta, node.visits)))]

\* one turn of the loop of _update_ancestors
update_node(node, leaf_eval) ==
    LET visits == node.visits + 1
        delta == RSub(leaf_eval.black_winrate, node.black_winrate.val)
    IN  [node EXCEPT !.visits = visits,
                     !.black_winrate = Some(RAdd(node.black_winrate.val,
                                                 RDivInt(delta, visits)))]

RECURSIVE update_ancestors(_, _, _)
update_ancestors(t, ancestors, leaf_eval) ==
    IF ancestors = <<>>
    THEN t
    ELSE update_ancestors([t EXCEPT ![Head(ancestors)] = update_node(@, leaf_eval)],
                          Tail(ancestors), leaf_eval)

\* playout: leaf_eval is what nnet.evaluate returned for query
playout(t, moves_before_root, player, leaf_eval) ==
    LET d == descend_to_leaf(t, player)
        expanded == expand_leaf(d.tree, d.leaf, leaf_eval)
    IN  [tree |-> update_ancestors(expanded, Ancestors(d.leaf), leaf_eval),
         leaf |-> d.leaf,
         moves |-> d.moves,
         ancestors |-> Ancestors(d.leaf),
         query |-> moves_before_root \o d.moves]

-----------------------------------------------------------------------------
(* mcts.py: analysis *)

\* sorted(locations, key=visits, reverse=True): a stable insertion sort
RECURSIVE InsertByVisits(_, _, _, _)
InsertByVisits(t, path, sorted, location) ==
    IF sorted = <<>>
    THEN <<location>>
    ELSE IF t[Append(path, Head(sorted))].visits >= t[Append(path, location)].visits
         THEN <<Head(sorted)>> \o InsertByVisits(t, path, Tail(sorted), location)
         ELSE <<location>> \o sorted

RECURSIVE SortByVisits(_, _, _, _)
SortByVisits(t, path, locations, sorted) ==
    IF locations = <<>>
    THEN sorted
    ELSE SortByVisits(t, path, Tail(locations),
                      InsertByVisits(t, path, sorted, Head(locations)))

\* sorted_next_locations without the sort
sorted_next_locations_unsorted(t, path) == t[path].child_by_location

sorted_next_locations(t, path) ==
    SortByVisits(t, path, t[path].child_by_location, <<>>)

best_next_location(t, path) ==
    LET sorted_locations == sorted_next_locations(t, path)
    IN  IF sorted_locations # <<>> THEN Some(sorted_locations[1]) ELSE None

RECURSIVE principal_variation_from_node(_, _)
principal_variation_from_node(t, path) ==
    IF has_child(t, path)
    THEN LET best_location == best_next_location(t, path).val
         IN  <<best_location>> \o principal_variation_from_node(t, Append(path, best_location))
    ELSE <<>>

principal_variation(t, location) ==
    <<location>> \o principal_variation_from_node(t, <<location>>)

-----------------------------------------------------------------------------
(* neuralnet.py: the evaluator.  KataGo is outside the program: what         *)
(* nnet.evaluate returns is an input, drawn from these sets.  A policy is   *)
(* the dict _get_policy_dict builds (the legal locations in index order,    *)
(* 'pass' last); it is empty when KataGo marks every entry illegal.         *)

Policies ==
    { <<>>,
      << <<"A1", <<1, 4>> >>, <<"pass", <<3, 4>> >> >>,
      << <<"A1", <<1, 2>> >>, <<"B1", <<1, 2>> >>, <<"pass", <<0, 1>> >> >> }

Winrates == { <<0, 1>>, <<1, 4>>, <<1, 1>> }

\* the results the search-only model draws from
SearchEvals ==
    { [policy_by_location |-> p, black_winrate |-> w] : p \in Policies, w \in Winrates }

\* the results the protocol model draws from
GtpEvals ==
    { [policy_by_location |-> << <<"A1", <<1, 4>> >>, <<"pass", <<3, 4>> >> >>,
       black_winrate |-> <<1, 4>>],
      [policy_by_location |-> << <<"A1", <<1, 4>> >>, <<"pass", <<3, 4>> >> >>,
       black_winrate |-> <<1, 1>>],
      [policy_by_location |-> <<>>, black_winrate |-> <<1, 1>>] }

-----------------------------------------------------------------------------
(* History variables of a search: they record what the playouts did and are *)
(* read by the properties only.                                             *)

NoSearchHist ==
    [nplayouts |-> 0,          \* playouts made on the current tree
     allNonEmpty |-> TRUE,     \* every evaluation so far had a non-empty policy
     sum |-> (Root :> RZero),  \* node -> sum of the leaf evaluations of the playouts
                               \*         that expanded it or passed through it
     leaf |-> Root,            \* the leaf of the last playout
     query |-> <<>>,           \* the moves the last playout gave to nnet.evaluate
     eval |-> None]            \* what nnet.evaluate returned to the last playout

\* the nodes a playout visited: its ancestors and its leaf
Visited(r) == { r.ancestors[k] : k \in 1..Len(r.ancestors) } \cup { r.leaf }

SearchHistAfter(h, r, leaf_eval) ==
    [nplayouts |-> h.nplayouts + 1,
     allNonEmpty |-> h.allNonEmpty /\ leaf_eval.policy_by_location # <<>>,
     sum |-> [p \in DOMAIN r.tree |->
                 LET old == IF p \in DOMAIN h.sum THEN h.sum[p] ELSE RZero
                 IN  IF p \in Visited(r) THEN RAdd(old, leaf_eval.black_winrate) ELSE old],
     leaf |-> r.leaf,
     query |-> r.query,
     eval |-> Some(leaf_eval)]

-----------------------------------------------------------------------------
(* neuralnet.py and gtp.py: the state after construction *)

InitQueryParameter ==
    [komi |-> <<15, 2>>, boardXSize |-> 19, boardYSize |-> 19, initialStones |-> <<>>]

\* the locals of handle_genmove and lz_analyze; times are in 1/100 s on a clock
\* that reads 0 when the search starts
NoSearch ==
    [player |-> "", moves_before_root |-> <<>>, gtp_id |-> "", now |-> 0,
     stop_time |-> RZero, interval |-> 0, next_message_time |-> 0]

InitGtpHist ==
    [search |-> NoSearchHist,
     sent |-> 0,             \* lines the client has written
     last |-> [command |-> "", success |-> FALSE, before |-> <<>>, afterPlay |-> FALSE],
                             \* the last command answered, and move_history before it
     sinceSend |-> -1,       \* playouts lz_analyze finished since the client wrote a
                             \*   line while it ran (-1: no line written yet)
     checks |-> 0,           \* input checks of lz_analyze since its last playout
     pending |-> None]       \* the first unread line of the pipe when lz_analyze stopped

Init ==
    /\ pipe = <<>>
    /\ closed = FALSE
    /\ buf = <<>>
    /\ pc = "idle"
    /\ crash = ""
    /\ move_history = <<>>
    /\ query_parameter = InitQueryParameter
    /\ genmove_sec = <<1, 1>>
    /\ out = <<>>
    /\ tree = NewTree
    /\ search = NoSearch
    /\ hist = InitGtpHist

-----------------------------------------------------------------------------
(* The search-only model: mcts.py's own example loop, playouts repeated on  *)
(* one root created by make_node.                                           *)

SearchPrefixes == { <<>>, << <<"B", "Q16">> >> }

InitSearch ==
    /\ pipe = <<>>
    /\ closed = FALSE
    /\ buf = <<>>
    /\ pc = "search"
    /\ crash = ""
    /\ move_history = <<>>
    /\ query_parameter = InitQueryParameter
    /\ genmove_sec = <<1, 1>>
    /\ out = <<>>
    /\ tree = NewTree
    /\ \E player \in {"B", "W"}, prefix \in SearchPrefixes :
           search = [NoSearch EXCEPT !.player = player, !.moves_before_root = prefix]
    /\ hist = InitGtpHist

SearchPlayout ==
    /\ pc = "search"
    /\ hist.search.nplayouts < MaxSearch
    /\ \E leaf_eval \in SearchEvals :
           LET r == playout(tree, search.moves_before_root, search.player, leaf_eval)
           IN  /\ tree' = r.tree
               /\ hist' = [hist EXCEPT !.search = SearchHistAfter(@, r, leaf_eval)]
    /\ UNCHANGED <<pipe, closed, buf, pc, crash, move_history, query_parameter,
                   genmove_sec, out, search>>

NextSearch == SearchPlayout

SpecSearch == InitSearch /\ [][NextSearch]_vars

-----------------------------------------------------------------------------
(* Properties of the search *)

\* C5: after N >= 1 consecutive playouts on a root created by make_node, all
\* evaluations having non-empty policies, root['visits'] = N
C5_RootVisits ==
    (hist.search.nplayouts >= 1 /\ hist.search.allNonEmpty)
        => tree[Root].visits = hist.search.nplayouts

C5_Witness ==
    /\ hist.search.nplayouts = 3
    /\ hist.search.allNonEmpty
    /\ tree[Root].visits = 3

\* black_winrate * visits = the sum of the leaf evaluations of the playouts that
\* expanded the node or passed through it
MeanOfVisits(p) ==
    /\ ~tree[p].black_winrate.isNone
    /\ RMul(tree[p].black_winrate.val, <<tree[p].visits, 1>>) = hist.search.sum[p]

\* C6: after any sequence of playouts, every node's black_winrate * visits is
\* the sum of the leaf evaluations of exactly the playouts that expanded it or
\* passed through it
C6_MeanOfEvaluations ==
    hist.search.nplayouts >= 1 => \A p \in DOMAIN tree : MeanOfVisits(p)

\* the same for evaluations with non-empty policies only
C6_MeanNonEmpty ==
    (hist.search.nplayouts >= 1 /\ hist.search.allNonEmpty)
        => \A p \in DOMAIN tree : MeanOfVisits(p)

-----------------------------------------------------------------------------
(* Python's conversions of the argument texts.  An input line is the        *)
(* sequence of its whitespace-separated tokens (line.strip().split());     *)
(* the conversions are tables over the tokens the client of this model     *)
(* can send.                                                                *)

IntTable ==
    ("0" :> 0) @@ ("1" :> 1) @@ ("2" :> 2) @@ ("5" :> 5) @@ ("7" :> 7) @@ ("9" :> 9)
    @@ ("10" :> 10) @@ ("12" :> 12) @@ ("20" :> 20) @@ ("400" :> 400)
    @@ ("-1" :> -1) @@ ("-5" :> -5)

\* str.isdigit: a non-empty text of digits only (no sign)
isdigit(text) == text \in DOMAIN IntTable /\ IntTable[text] >= 0

\* int(text): the value, or ValueError
int(text) ==
    IF text \in DOMAIN IntTable
    THEN [raised |-> "", val |-> IntTable[text]]
    ELSE [raised |-> "ValueError", val |-> 0]

FloatTable ==
    ("6.5" :> <<13, 2>>) @@ ("7.5" :> <<15, 2>>) @@ ("0.3" :> <<3, 10>>)

\* float(text): a finite value, inf, nan, or ValueError
float(text) ==
    CASE text \in DOMAIN IntTable   -> [raised |-> "", kind |-> "finite", val |-> <<IntTable[text], 1>>]
      [] text \in DOMAIN FloatTable -> [raised |-> "", kind |-> "finite", val |-> FloatTable[text]]
      [] text \in {"inf", "nan"}    -> [raised |-> "", kind |-> text, val |-> RZero]
      [] OTHER                      -> [raised |-> "ValueError", kind |-> "", val |-> RZero]

UpperTable ==
    ("b" :> "B") @@ ("w" :> "W") @@ ("x" :> "X") @@ ("d4" :> "D4") @@ ("q16" :> "Q16")
    @@ ("pass" :> "PASS") @@ ("Pass" :> "PASS") @@ ("interval" :> "INTERVAL")
    @@ ("val" :> "VAL") @@ ("abc" :> "ABC") @@ ("inf" :> "INF") @@ ("nan" :> "NAN")
    @@ ("a" :> "A") @@ ("c" :> "C") @@ ("now" :> "NOW") @@ ("foo" :> "FOO")
    @@ ("name" :> "NAME")

\* str.upper
upper(text) == IF text \in DOMAIN UpperTable THEN UpperTable[text] ELSE text

\* text in 'INTERVAL': the substrings of 'INTERVAL' among the tokens
InINTERVAL(text) == text \in {"INTERVAL", "INTER", "VAL", "A", "I"}

-----------------------------------------------------------------------------
(* gtp.py: subroutines for run_gtp *)

\* parse: command is None for a blank line
parse(line) ==
    IF line = <<>>
    THEN [gtp_id |-> None, command |-> None, args |-> <<>>]
    ELSE LET has_id == isdigit(line[1])
             a == IF has_id THEN Tail(line) ELSE line
             b == IF a = <<>> THEN <<"">> ELSE a
         IN  [gtp_id |-> Some(IF has_id THEN line[1] ELSE ""),
              command |-> Some(Head(b)),
              args |-> Tail(b)]

\* the lines print() writes: a response, an lz-analyze message, the closing newline
ResponseLine(header, gtp_id, result) ==
    [kind |-> "response", header |-> header, gtp_id |-> gtp_id, result |-> result,
     infos |-> <<>>]

MessageLine(infos) ==
    [kind |-> "message", header |-> "", gtp_id |-> "", result |-> <<>>, infos |-> infos]

NewLine ==
    [kind |-> "newline", header |-> "", gtp_id |-> "", result |-> <<>>, infos |-> <<>>]

\* build_response: f'{header}{gtp_id} {result}'; a result is the sequence of its
\* words or lines, <<>> being ''
build_response(gtp_id, success, result) ==
    ResponseLine(IF success THEN "=" ELSE "?", gtp_id, result)

-----------------------------------------------------------------------------
(* gtp.py: command handlers.  A handler takes the engine state              *)
(* st = [move_history, query_parameter, genmove_sec] and its arguments and  *)
(* gives [raised, success, result, follow_up, st]: the exception it raised  *)
(* ("" when none), what it returned and the state it left.                  *)

Returned(success, result, st) ==
    [raised |-> "", success |-> success, result |-> result, follow_up |-> None, st |-> st]

Raised(exception, st) ==
    [raised |-> exception, success |-> FALSE, result |-> <<>>, follow_up |-> None,
     st |-> st]

protocol_version == "2"
name == "DIY_on_kata"
version == "0.0.0"

command_names ==
    <<"protocol_version", "name", "version", "known_command", "list_commands", "quit",
      "boardsize", "clear_board", "komi", "play", "genmove",
      "undo", "lz-analyze", "time_settings", "fixed_handicap">>

InCommandTable(command) == InSeq(command, command_names)

\* next_player
next_player(history) ==
    IF history = <<>> THEN "B" ELSE opponent(history[Len(history)][1])

\* play
play(history, color, vertex) ==
    LET player == upper(color)
        location == IF upper(vertex) = "PASS" THEN "pass" ELSE upper(vertex)
    IN  Append(history, <<player, location>>)

\* NeuralNet.location_for_coord: col_name[j] + str(w - i); a negative j counts
\* from the end of col_name, a j outside -19..18 raises IndexError
col_name ==
    <<"A", "B", "C", "D", "E", "F", "G", "H", "J", "K", "L", "M", "N", "O", "P", "Q",
      "R", "S", "T">>

location_for_coord(w, coord) ==
    LET i == coord[1]
        j == coord[2]
        k == IF j < 0 THEN j + Len(col_name) ELSE j
    IN  IF k < 0 \/ k >= Len(col_name)
        THEN [raised |-> "IndexError", val |-> ""]
        ELSE [raised |-> "", val |-> col_name[k + 1] \o ToString(w - i)]

\* fixed_handicap_locations: the locations, or the exception location_for_coord raised
fixed_handicap_locations(board_size, number_of_stones) ==
    LET i1 == IF board_size > 12 THEN 3 ELSE 2
        i2 == board_size \div 2
        i3 == board_size - 1 - i1
        corners == << <<i1, i3>>, <<i3, i1>>, <<i3, i3>>, <<i1, i1>> >>
        edges == << <<i2, i3>>, <<i2, i1>>, <<i1, i2>>, <<i3, i2>> >>
        center == <<i2, i2>>
        all_stars == corners \o edges \o <<center>>
        stars == SubSeq(all_stars, 1, number_of_stones)
        found == [k \in 1..Len(stars) |-> location_for_coord(board_size, stars[k])]
        locations == [k \in 1..Len(stars) |-> found[k].val]
        center_location == location_for_coord(board_size, center)
        bad == \E k \in 1..Len(stars) : found[k].raised # ""
    IN  IF bad \/ (number_of_stones \in {5, 7} /\ center_location.raised # "")
        THEN [raised |-> "IndexError", val |-> <<>>]
        ELSE [raised |-> "",
              val |-> IF number_of_stones \in {5, 7}
                      THEN [locations EXCEPT ![Len(locations)] = center_location.val]
                      ELSE locations]

\* set_handicap_locations
set_handicap_locations(q, locations) ==
    [q EXCEPT !.initialStones = [k \in 1..Len(locations) |-> <<"B", locations[k]>>]]

handle_protocol_version(st) == Returned(TRUE, <<protocol_version>>, st)

handle_name(st) == Returned(TRUE, <<name>>, st)

handle_version(st) == Returned(TRUE, <<version>>, st)

\* bool_text calls its dict (ret(bool(val))), which raises TypeError
bool_text(val) == [raised |-> "TypeError", val |-> ""]

handle_known_command(st, command_name) ==
    LET text == bool_text(InCommandTable(command_name))
    IN  IF text.raised # "" THEN Raised(text.raised, st) ELSE Returned(TRUE, <<text.val>>, st)

handle_list_commands(st) == Returned(TRUE, command_names, st)

handle_quit(st) == Returned(TRUE, <<>>, st)

\* handle_boardsize setting the size before it checks the range
handle_boardsize_unchecked(st, size_text) ==
    LET size == int(size_text)
    IN  IF size.raised # ""
        THEN Returned(FALSE, <<>>, st)
        ELSE IF size.val >= 2 /\ size.val <= 19
             THEN Returned(TRUE, <<>>,
                           [st EXCEPT !.query_parameter.boardXSize = size.val,
                                      !.query_parameter.boardYSize = size.val])
             ELSE Returned(FALSE, <<"unacceptable size">>,
                           [st EXCEPT !.query_parameter.boardXSize = size.val,
                                      !.query_parameter.boardYSize = size.val])

handle_boardsize(st, size_text) ==
    LET size == int(size_text)
    IN  IF size.raised # ""
        THEN Returned(FALSE, <<>>, st)
        ELSE IF size.val >= 2 /\ size.val <= 19
             THEN Returned(TRUE, <<>>,
                           [st EXCEPT !.query_parameter.boardXSize = size.val,
                                      !.query_parameter.boardYSize = size.val])
             ELSE Returned(FALSE, <<"unacceptable size">>, st)

\* handle_clear_board without set_handicap_locations([])
handle_clear_board_keeps_stones(st) ==
    Returned(TRUE, <<>>, [st EXCEPT !.move_history = <<>>])

handle_clear_board(st) ==
    Returned(TRUE, <<>>,
             [st EXCEPT !.move_history = <<>>,
                        !.query_parameter = set_handicap_locations(@, <<>>)])

\* int(2 * new_komi) raises ValueError for nan (caught) and OverflowError for inf
handle_komi(st, komi_text) ==
    LET new_komi == float(komi_text)
    IN  CASE new_komi.raised # "" -> Returned(FALSE, <<>>, st)
          [] new_komi.kind = "nan" -> Returned(FALSE, <<>>, st)
          [] new_komi.kind = "inf" -> Raised("OverflowError", st)
          [] OTHER ->
               IF RMul(<<2, 1>>, new_komi.val)[2] = 1
               THEN Returned(TRUE, <<>>, [st EXCEPT !.query_parameter.komi = new_komi.val])
               ELSE Returned(FALSE, <<"unacceptable komi", komi_text>>, st)

handle_play(st, color, vertex) ==
    Returned(TRUE, <<>>, [st EXCEPT !.move_history = play(@, color, vertex)])

\* handle_undo with pop(0) for pop(-1)
handle_undo_pops_first(st) ==
    IF st.move_history # <<>>
    THEN Returned(TRUE, <<>>, [st EXCEPT !.move_history = Tail(@)])
    ELSE Returned(FALSE, <<"cannot undo">>, st)

handle_undo(st) ==
    IF st.move_history # <<>>
    THEN Returned(TRUE, <<>>,
                  [st EXCEPT !.move_history = SubSeq(@, 1, Len(@) - 1)])
    ELSE Returned(FALSE, <<"cannot undo">>, st)

\* decode_analyze_args: [player, interval]; the interval is in 1/100 s (the source
\* divides by 100 to get seconds), -1 after IndexError or with tokens left over
decode_analyze_args(history, args) ==
    LET a0 == [k \in 1..Len(args) |-> upper(args[k])]
        error_interval == -1
        colored == a0 # <<>> /\ a0[1] \in {"B", "W"}
        player == IF colored THEN a0[1] ELSE next_player(history)
        a1 == IF colored THEN Tail(a0) ELSE a0
        a2 == IF a1 # <<>> /\ InINTERVAL(a1[1]) THEN Tail(a1) ELSE a1
        timed == a2 # <<>> /\ isdigit(a2[1])
        a3 == IF timed THEN Tail(a2) ELSE a2
    IN  IF a0 = <<>> \/ a1 = <<>> \/ a2 = <<>>    \* args[0] raised IndexError
        THEN [player |-> player, interval |-> error_interval]
        ELSE IF a3 # <<>>
             THEN [player |-> player, interval |-> error_interval]
             ELSE [player |-> player,
                   interval |-> IF timed THEN int(a2[1]).val ELSE 0]

handle_lz_analyze(st, args) ==
    LET d == decode_analyze_args(st.move_history, args)
    IN  IF d.interval >= 0
        THEN [raised |-> "", success |-> TRUE, result |-> <<>>,
              follow_up |-> Some(d), st |-> st]
        ELSE Returned(FALSE, <<"syntax error">>, st)

\* genmove_sec = max(int(main_time) / 400, int(byo_yomi_time) / int(byo_yomi_stones) * 0.9)
handle_time_settings(st, main_time, byo_yomi_time, byo_yomi_stones) ==
    LET m == int(main_time)
        b == int(byo_yomi_time)
        n == int(byo_yomi_stones)
    IN  CASE m.raised # "" -> Raised(m.raised, st)
          [] b.raised # "" -> Raised(b.raised, st)
          [] n.raised # "" -> Raised(n.raised, st)
          [] n.val = 0     -> Raised("ZeroDivisionError", st)
          [] OTHER ->
               LET time1 == Rat(m.val, 400)
                   time2 == Rat(9 * b.val, 10 * n.val)
               IN  Returned(TRUE, <<>>,
                            [st EXCEPT !.genmove_sec =
                                           IF RLess(time1, time2) THEN time2 ELSE time1])

handle_fixed_handicap(st, number_of_stones_text) ==
    LET k == int(number_of_stones_text)
    IN  IF k.raised # ""
        THEN Raised(k.raised, st)
        ELSE IF 0 < k.val /\ k.val <= 9 /\ st.move_history = <<>>
             THEN LET locations ==
                          fixed_handicap_locations(st.query_parameter.boardXSize, k.val)
                  IN  IF locations.raised # ""
                      THEN Raised(locations.raised, st)
                      ELSE Returned(TRUE, locations.val,
                                    [st EXCEPT !.query_parameter =
                                                   set_handicap_locations(@, locations.val)])
             ELSE Returned(FALSE, <<>>, st)

handle_unknown_command(st, args) == Returned(FALSE, <<"unknown command">>, st)

\* the number of parameters of each handler of command_table, handle_lz_analyze
\* and handle_unknown_command taking any number (*args)
Arity(command) ==
    CASE command \in {"protocol_version", "name", "version", "list_commands", "quit",
                      "clear_board", "undo"} -> 0
      [] command \in {"known_command", "boardsize", "komi", "genmove", "fixed_handicap"} -> 1
      [] command = "play" -> 2
      [] command = "time_settings" -> 3
      [] OTHER -> -1

\* handler(*args) for every handler but handle_genmove, which runs the search
call_handler(st, command, args) ==
    CASE ~InCommandTable(command)  -> handle_unknown_command(st, args)
      [] command = "lz-analyze"    -> handle_lz_analyze(st, args)
      [] Len(args) # Arity(command) -> Raised("TypeError", st)
      [] command = "protocol_version" -> handle_protocol_version(st)
      [] command = "name"          -> handle_name(st)
      [] command = "version"       -> handle_version(st)
      [] command = "known_command" -> handle_known_command(st, args[1])
      [] command = "list_commands" -> handle_list_commands(st)
      [] command = "quit"          -> handle_quit(st)
      [] command = "boardsize"     -> handle_boardsize(st, args[1])
      [] command = "clear_board"   -> handle_clear_board(st)
      [] command = "komi"          -> handle_komi(st, args[1])
      [] command = "play"          -> handle_play(st, args[1], args[2])
      [] command = "undo"          -> handle_undo(st)
      [] command = "time_settings" -> handle_time_settings(st, args[1], args[2], args[3])
      [] command = "fixed_handicap" -> handle_fixed_handicap(st, args[1])

\* handle, the except clause: a TypeError becomes the failure 'syntax error'; any
\* other exception leaves handle
except_TypeError(r) ==
    IF r.raised = "TypeError"
    THEN [raised |-> "", success |-> FALSE, result |-> <<"syntax error">>,
          follow_up |-> None, st |-> r.st]
    ELSE r

\* handle
handle(st, command, args) == except_TypeError(call_handler(st, command, args))

-----------------------------------------------------------------------------
(* gtp.py: analyze *)

\* round(x * 10000): Python rounds a half to the even neighbour
lz_integerize(x) ==
    LET n == x[1] * 10000
        d == x[2]
        f == n \div d
        r == n - f * d
    IN  CASE 2 * r < d -> f
          [] 2 * r > d -> f + 1
          [] OTHER     -> IF f % 2 = 0 THEN f ELSE f + 1

\* lz_analyze_info: the player is next_player(), read from move_history
lz_analyze_info(order, location, t, history) ==
    LET child == find_child(t, Root, location).val
        player == next_player(history)
        winrate == winrate_for_player(child.black_winrate.val, player)
        prior == PriorOf(t[Root].policy_by_location.val, location)
    IN  [move |-> location,
         visits |-> child.visits,
         winrate |-> lz_integerize(winrate),
         prior |-> lz_integerize(prior),
         order |-> order,
         pv |-> principal_variation(t, location)]

\* lz_analyze_message: the infos joined by ' ', the empty text when there is none
lz_analyze_message(t, history) ==
    LET sorted == sorted_next_locations(t, Root)
    IN  [k \in 1..Len(sorted) |-> lz_analyze_info(k - 1, sorted[k], t, history)]

\* stdin_has_data looking at sys.stdin's buffer, not at the file descriptor
stdin_has_data_buffer == buf # <<>>

\* stdin_has_data: select() on the file descriptor of stdin, which is readable
\* when the pipe holds unread data or its writer has closed it; the lines already
\* in sys.stdin's buffer are not seen
stdin_has_data == pipe # <<>> \/ closed

-----------------------------------------------------------------------------
(* The client and the input stream *)

\* time one playout (one evaluator round trip) takes, in 1/100 s; the clock
\* moves on between any two readings that a playout separates
Durations == {1, 200}

Running == pc \notin {"stopped", "crashed"}

\* the client writes one line of `lines`, at most `max` lines in a run, whatever
\* it has written before is read or not
ClientSend(lines, max) ==
    /\ Running
    /\ ~closed
    /\ hist.sent < max
    /\ \E line \in lines : pipe' = Append(pipe, line)
    /\ hist' = [hist EXCEPT !.sent = @ + 1,
                            !.sinceSend = IF pc \in {"an_check", "an_playout"} /\ @ = -1
                                          THEN 0 ELSE @]
    /\ UNCHANGED <<closed, buf, pc, crash, move_history, query_parameter, genmove_sec,
                   out, tree, search>>

\* a client that writes its next line once the process has taken the last one
ClientAsk(lines, max) ==
    /\ pipe = <<>>
    /\ buf = <<>>
    /\ ClientSend(lines, max)

\* the client closes its end of the pipe
ClientClose ==
    /\ Running
    /\ ~closed
    /\ closed' = TRUE
    /\ UNCHANGED <<pipe, buf, pc, crash, move_history, query_parameter, genmove_sec,
                   out, tree, search, hist>>

\* run_gtp, `for line in sys.stdin` with an empty buffer: the read takes a chunk of
\* what the pipe holds (some of its lines, at least one)
Fill ==
    /\ pc = "idle"
    /\ buf = <<>>
    /\ pipe # <<>>
    /\ \E k \in 1..Len(pipe) :
           /\ buf' = SubSeq(pipe, 1, k)
           /\ pipe' = SubSeq(pipe, k + 1, Len(pipe))
    /\ UNCHANGED <<closed, pc, crash, move_history, query_parameter, genmove_sec, out,
                   tree, search, hist>>

\* run_gtp: the loop ends at the end of the input
EndOfInput ==
    /\ pc = "idle"
    /\ buf = <<>>
    /\ pipe = <<>>
    /\ closed
    /\ pc' = "stopped"
    /\ UNCHANGED <<pipe, closed, buf, crash, move_history, query_parameter, genmove_sec,
                   out, tree, search, hist>>

-----------------------------------------------------------------------------
(* gtp.py: run_gtp and execute *)

EngineState ==
    [move_history |-> move_history, query_parameter |-> query_parameter,
     genmove_sec |-> genmove_sec]

\* run_gtp: a blank line is ignored
Blank ==
    /\ pc = "idle"
    /\ buf # <<>>
    /\ parse(Head(buf)).command.isNone
    /\ buf' = Tail(buf)
    /\ hist' = [hist EXCEPT !.pending = None]
    /\ UNCHANGED <<pipe, closed, pc, crash, move_history, query_parameter, genmove_sec,
                   out, tree, search>>

\* run_gtp and execute for every command but a genmove with one argument: handle,
\* print(response), follow_up_maybe, print(); an exception out of handle ends the
\* process; the follow_up of lz-analyze enters lz_analyze (root = make_node(),
\* next_message_time = -1) before the closing print()
Execute ==
    /\ pc = "idle"
    /\ buf # <<>>
    /\ \E p \in {parse(Head(buf))} :
           /\ ~p.command.isNone
           /\ ~(p.command.val = "genmove" /\ Len(p.args) = 1)
           /\ \E r \in {handle(EngineState, p.command.val, p.args)} :
                  /\ move_history' = r.st.move_history
                  /\ query_parameter' = r.st.query_parameter
                  /\ genmove_sec' = r.st.genmove_sec
                  /\ IF r.raised # ""
                     THEN /\ pc' = "crashed"
                          /\ crash' = r.raised
                          /\ out' = <<>>
                          /\ UNCHANGED <<tree, search>>
                     ELSE IF ~r.follow_up.isNone
                     THEN /\ pc' = "an_check"
                          /\ out' = <<build_response(p.gtp_id.val, r.success, r.result)>>
                          /\ tree' = NewTree
                          /\ search' = [NoSearch EXCEPT
                                           !.player = r.follow_up.val.player,
                                           !.moves_before_root = move_history,
                                           !.gtp_id = p.gtp_id.val,
                                           !.interval = r.follow_up.val.interval,
                                           !.next_message_time = -1]
                          /\ UNCHANGED crash
                     ELSE /\ pc' = IF p.command.val = "quit" THEN "stopped" ELSE "idle"
                          /\ out' = <<build_response(p.gtp_id.val, r.success, r.result),
                                      NewLine>>
                          /\ UNCHANGED <<crash, tree, search>>
                  /\ hist' = [hist EXCEPT
                                 !.last = [command |-> p.command.val,
                                           success |-> r.raised = "" /\ r.success,
                                           before |-> move_history,
                                           afterPlay |-> hist.last.command = "play" /\ hist.last.success],
                                 !.search = NoSearchHist,
                                 !.sinceSend = -1,
                                 !.checks = 0,
                                 !.pending = None]
    /\ buf' = Tail(buf)
    /\ UNCHANGED <<pipe, closed>>

\* handle_genmove, setup: stop_time = time.time() + genmove_sec, root = make_node()
GenmoveStart ==
    /\ pc = "idle"
    /\ buf # <<>>
    /\ LET p == parse(Head(buf))
       IN  /\ ~p.command.isNone
           /\ p.command.val = "genmove"
           /\ Len(p.args) = 1
           /\ search' = [NoSearch EXCEPT
                            !.player = upper(p.args[1]),
                            !.moves_before_root = move_history,
                            !.gtp_id = p.gtp_id.val,
                            !.stop_time = RMul(<<100, 1>>, genmove_sec)]
    /\ pc' = "genmove"
    /\ buf' = Tail(buf)
    /\ out' = <<>>
    /\ tree' = NewTree
    /\ hist' = [hist EXCEPT !.search = NoSearchHist, !.sinceSend = -1, !.checks = 0,
                            !.pending = None]
    /\ UNCHANGED <<pipe, closed, crash, move_history, query_parameter, genmove_sec>>

\* the condition of handle_genmove's loop
GenmoveGoesOn ==
    RLess(<<search.now, 1>>, search.stop_time) \/ tree[Root].visits < 1

\* handle_genmove: one turn of the playout loop
GenmovePlayout ==
    /\ pc = "genmove"
    /\ GenmoveGoesOn
    /\ hist.search.nplayouts < MaxPlayouts
    /\ \E leaf_eval \in GtpEvals, d \in Durations :
           LET r == playout(tree, move_history, search.player, leaf_eval)
           IN  /\ tree' = r.tree
               /\ search' = [search EXCEPT !.now = @ + d]
               /\ hist' = [hist EXCEPT !.search = SearchHistAfter(@, r, leaf_eval)]
    /\ UNCHANGED <<pipe, closed, buf, pc, crash, move_history, query_parameter,
                   genmove_sec, out>>

\* handle_genmove after the loop: play(player, best_location), where
\* best_location is None for a root without children and None.upper() raises
\* AttributeError; then execute prints the response and the newline
GenmoveFinish ==
    /\ pc = "genmove"
    /\ ~GenmoveGoesOn
    /\ LET best_location == best_next_location(tree, Root)
       IN  IF best_location.isNone
           THEN /\ pc' = "crashed"
                /\ crash' = "AttributeError"
                /\ UNCHANGED <<move_history, out, hist>>
           ELSE /\ pc' = "idle"
                /\ move_history' = play(move_history, search.player, best_location.val)
                /\ out' = <<build_response(search.gtp_id, TRUE, <<best_location.val>>),
                            NewLine>>
                /\ hist' = [hist EXCEPT
                               !.last = [command |-> "genmove", success |-> TRUE,
                                         before |-> move_history,
                                         afterPlay |-> hist.last.command = "play" /\ hist.last.success],
                               !.search = NoSearchHist]
                /\ UNCHANGED crash
    /\ tree' = NewTree
    /\ search' = NoSearch
    /\ UNCHANGED <<pipe, closed, buf, query_parameter, genmove_sec>>

\* lz_analyze, `while not stdin_has_data()`: the check does not read; when it
\* finds data the loop and follow_up_maybe end and execute prints the newline
AnalyzeCheck ==
    /\ pc = "an_check"
    /\ IF stdin_has_data
       THEN /\ pc' = "idle"
            /\ out' = Append(out, NewLine)
            /\ tree' = NewTree
            /\ search' = NoSearch
            /\ hist' = [hist EXCEPT
                           !.pending = IF pipe # <<>> THEN Some(Head(pipe)) ELSE None,
                           !.search = NoSearchHist]
       ELSE /\ pc' = "an_playout"
            /\ hist' = [hist EXCEPT !.checks = @ + 1]
            /\ UNCHANGED <<out, tree, search>>
    /\ UNCHANGED <<pipe, closed, buf, crash, move_history, query_parameter, genmove_sec>>

\* lz_analyze, the body of the loop: one playout, then the message when
\* time.time() > next_message_time, and next_message_time = time.time() + interval
AnalyzePlayout ==
    /\ pc = "an_playout"
    /\ hist.search.nplayouts < MaxPlayouts
    /\ \E leaf_eval \in GtpEvals, d \in Durations :
           LET r == playout(tree, move_history, search.player, leaf_eval)
               now == search.now + d
           IN  /\ tree' = r.tree
               /\ IF now > search.next_message_time
                  THEN /\ out' = Append(out, MessageLine(
                                                 lz_analyze_message(r.tree, move_history)))
                       /\ search' = [search EXCEPT
                                        !.now = now,
                                        !.next_message_time = now + search.interval]
                  ELSE /\ out' = out
                       /\ search' = [search EXCEPT !.now = now]
               /\ hist' = [hist EXCEPT
                              !.search = SearchHistAfter(@, r, leaf_eval),
                              !.sinceSend = IF @ >= 0 THEN @ + 1 ELSE @,
                              !.checks = 0]
    /\ pc' = "an_check"
    /\ UNCHANGED <<pipe, closed, buf, crash, move_history, query_parameter, genmove_sec>>

-----------------------------------------------------------------------------
(* The lines the client writes *)

\* every command, with well-formed and with malformed arguments
AllLines ==
    { <<>>, <<"name">>, <<"7", "version">>, <<"protocol_version">>, <<"list_commands">>,
      <<"known_command", "name">>, <<"known_command", "foo">>,
      <<"quit">>, <<"quit", "now">>,
      <<"boardsize", "9">>, <<"boardsize", "5">>, <<"boardsize", "1">>, <<"boardsize", "x">>,
      <<"clear_board">>,
      <<"komi", "6.5">>, <<"komi", "abc">>, <<"komi", "0.3">>, <<"komi", "inf">>,
      <<"komi", "nan">>,
      <<"play", "b", "d4">>, <<"play", "w">>, <<"play", "x", "d4">>,
      <<"genmove", "b">>, <<"genmove">>,
      <<"undo">>, <<"undo", "1">>,
      <<"lz-analyze", "0">>, <<"lz-analyze", "-5">>, <<"lz-analyze">>,
      <<"lz-analyze", "abc">>, <<"lz-analyze", "10", "20">>, <<"lz-analyze", "val", "10">>,
      <<"time_settings", "0", "0", "1">>, <<"time_settings", "a", "b", "c">>,
      <<"time_settings", "10", "10", "0">>, <<"time_settings", "10">>,
      <<"fixed_handicap", "2">>, <<"fixed_handicap", "abc">>, <<"fixed_handicap", "0">>,
      <<"foo">>, <<"12">> }

\* a game: moves, undo, genmove under several budgets
GameLines ==
    { <<>>, <<"play", "b", "d4">>, <<"play", "W", "Pass">>, <<"undo">>, <<"clear_board">>,
      <<"genmove", "w">>, <<"5", "genmove", "b">>,
      <<"time_settings", "0", "0", "1">>, <<"time_settings", "0", "10", "-1">> }

\* an analysis and what may interrupt it
AnalyzeLines ==
    { <<"lz-analyze", "0">>, <<"lz-analyze", "w", "interval", "1">>, <<"name">>,
      <<"quit">>, <<>> }

\* lines of the run with every command
MaxLines == 2

Process ==
    \/ Fill
    \/ EndOfInput
    \/ Blank
    \/ Execute

Next ==
    \/ ClientAsk(AllLines, MaxLines)
    \/ ClientClose
    \/ Process
    \/ GenmoveStart
    \/ GenmovePlayout
    \/ GenmoveFinish
    \/ AnalyzeCheck
    \/ AnalyzePlayout

Spec == Init /\ [][Next]_vars

NextGame ==
    \/ ClientAsk(GameLines, MaxSend)
    \/ ClientClose
    \/ Process
    \/ GenmoveStart
    \/ GenmovePlayout
    \/ GenmoveFinish

SpecGame == Init /\ [][NextGame]_vars

NextAnalyze ==
    \/ ClientSend(AnalyzeLines, MaxSend)
    \/ ClientClose
    \/ Process
    \/ AnalyzeCheck
    \/ AnalyzePlayout

SpecAnalyze == Init /\ [][NextAnalyze]_vars

-----------------------------------------------------------------------------
(* Properties of the protocol *)

\* a step of run_gtp that takes a line
TakesLine == pc = "idle" /\ buf # <<>> /\ buf' = Tail(buf)

Engine == <<move_history, query_parameter, genmove_sec>>

IsEmptyLine(l) == l.kind = "newline" \/ (l.kind = "message" /\ l.infos = <<>>)

\* C1: genmove always produces a legal move: whatever the budget and the
\* history, handle_genmove makes at least one playout, then replies with success
\* and a location L that is a key of the root's policy, and appends (player, L)
\* to move_history
C1_GenmoveLegal ==
    [][(pc = "genmove" /\ pc' # "genmove") =>
          /\ hist.search.nplayouts >= 1
          /\ pc' = "idle"
          /\ \E i \in 1..Len(tree[Root].policy_by_location.val) :
                 LET L == tree[Root].policy_by_location.val[i][1]
                 IN  /\ out' = <<ResponseLine("=", search.gtp_id, <<L>>), NewLine>>
                     /\ move_history' = Append(move_history, <<search.player, L>>)]_vars

\* C2: the reply to a command is one header line, =<id> <result> or ?<id> <result>,
\* then exactly one blank line, which is the last line of the block; no other
\* empty line is printed inside the block (the progress lines of lz-analyze
\* included); a blank input line prints nothing
C2_ReplyFraming ==
    /\ [](/\ out # <<>> => out[1].kind = "response"
          /\ \A i \in 1..Len(out) :
                 IsEmptyLine(out[i]) =>
                     /\ i = Len(out)
                     /\ out[i].kind = "newline"
                     /\ pc \notin {"an_check", "an_playout"}
          /\ (pc \in {"idle", "stopped"} /\ out # <<>>) => out[Len(out)].kind = "newline")
    /\ [][(TakesLine /\ Head(buf) = <<>>) => out' = out]_vars

\* C3: lz_analyze's loop ends if and only if its input check finds data on the
\* input stream; it leaves the input unread, and the pending line is the next
\* line run_gtp parses
C3_AnalyzeStops ==
    [][/\ (pc = "an_check" /\ pc' = "idle") =>
              /\ pipe # <<>> \/ closed
              /\ pipe' = pipe
              /\ buf' = buf
       /\ (pc = "an_check" /\ (pipe # <<>> \/ closed)) => pc' # "an_playout"
       /\ (TakesLine /\ ~hist.pending.isNone) => Head(buf) = hist.pending.val]_vars

\* C4: once the client has written a line while lz_analyze runs, the loop
\* finishes at most one more playout before it stops; the input check is made
\* exactly once before each playout and can always be made (it does not wait)
C4_BoundedInterrupt ==
    /\ hist.sinceSend <= 1
    /\ pc = "an_playout" => hist.checks = 1
    /\ pc = "an_check" => hist.checks = 0 /\ ENABLED AnalyzeCheck

C4_Witness ==
    /\ pc = "idle"
    /\ hist.last.command = "lz-analyze"
    /\ hist.sinceSend = 1
    /\ ~hist.pending.isNone

\* C7: no line with malformed argument values ends the dispatcher: every step
\* of run_gtp that takes a line leaves the process running
C7_NoAbortOnArguments ==
    [][(TakesLine /\ Head(buf) # <<>>) => pc' # "crashed"]_vars

\* C8: a command that is not in command_table gets ?<id> unknown command, a
\* command of the table with the wrong number of arguments gets ?<id> syntax
\* error; in both cases nothing else happens and run_gtp goes on
C8_DispatchRejection ==
    [][(TakesLine /\ Head(buf) # <<>>) =>
          LET p == parse(Head(buf))
              unknown == ~InCommandTable(p.command.val)
              miscounted == /\ InCommandTable(p.command.val)
                            /\ Arity(p.command.val) >= 0
                            /\ Len(p.args) # Arity(p.command.val)
          IN  /\ unknown =>
                     out' = <<ResponseLine("?", p.gtp_id.val, <<"unknown command">>),
                              NewLine>>
              /\ miscounted =>
                     out' = <<ResponseLine("?", p.gtp_id.val, <<"syntax error">>),
                              NewLine>>
              /\ (unknown \/ miscounted) => (Engine' = Engine /\ pc' = "idle")]_vars

\* C9: a command answered with a failure (?) leaves move_history, the query
\* parameters of the evaluator and genmove_sec as they were
C9_FailureKeepsState ==
    [][(TakesLine /\ out' # <<>> /\ out'[1].header = "?" /\ pc' # "crashed")
           => Engine' = Engine]_vars

C9_Witness ==
    /\ hist.last.command = "fixed_handicap"
    /\ out # <<>>
    /\ out[1].header = "?"
    /\ move_history # <<>>

\* a step of run_gtp that takes an undo
TakesUndo == TakesLine /\ Head(buf) = <<"undo">>

\* C10: undo is the inverse of play: a play followed by undo leaves move_history
\* as it was before the play; undo on an empty history answers ? cannot undo and
\* leaves it empty
C10_UndoInvertsPlay ==
    [][TakesUndo =>
          IF move_history = <<>>
          THEN /\ out' = <<ResponseLine("?", "", <<"cannot undo">>), NewLine>>
               /\ move_history' = <<>>
          ELSE (hist.last.command = "play" /\ hist.last.success)
                   => move_history' = hist.last.before]_vars

C10_Witness ==
    /\ hist.last.command = "undo"
    /\ hist.last.success
    /\ hist.last.afterPlay
    /\ move_history # <<>>

\* a step of run_gtp that takes a line with command c and answers it with =
Answers(c) ==
    /\ TakesLine
    /\ Head(buf) # <<>>
    /\ parse(Head(buf)).command.val = c
    /\ out' # <<>>
    /\ out'[1].header = "="

\* the step of handle_genmove that replies
GenmoveReplies == pc = "genmove" /\ pc' = "idle"

AppendsOneMove ==
    /\ Len(move_history') = Len(move_history) + 1
    /\ SubSeq(move_history', 1, Len(move_history)) = move_history

\* C11: move_history changes only so: a successful play or genmove appends
\* exactly one move, a successful undo removes exactly the last move, clear_board
\* empties it and empties initialStones; every other command and every step of
\* lz-analyze leaves it unchanged
C11_HistoryFrame ==
    [][CASE Answers("play") \/ GenmoveReplies -> AppendsOneMove
         [] Answers("undo") ->
                /\ move_history # <<>>
                /\ move_history' = SubSeq(move_history, 1, Len(move_history) - 1)
         [] Answers("clear_board") ->
                /\ move_history' = <<>>
                /\ query_parameter'.initialStones = <<>>
         [] OTHER -> move_history' = move_history]_vars

C11_Witness ==
    /\ pc = "an_check"
    /\ hist.search.nplayouts >= 1
    /\ Len(out) >= 2
    /\ move_history # <<>>

\* the arguments of lz-analyze are an optional color, an optional token INTERVAL
\* and the interval; they are malformed when the interval is missing, is not a
\* number without sign, or is followed by more tokens
MalformedAnalyzeArgs(args) ==
    LET a0 == [k \in 1..Len(args) |-> upper(args[k])]
        a1 == IF a0 # <<>> /\ a0[1] \in {"B", "W"} THEN Tail(a0) ELSE a0
        a2 == IF a1 # <<>> /\ a1[1] = "INTERVAL" THEN Tail(a1) ELSE a1
    IN  \/ a2 = <<>>
        \/ ~isdigit(a2[1])
        \/ Len(a2) > 1

\* C12: an lz-analyze whose interval is missing, negative, not a number or
\* followed by more tokens is answered with ? syntax error before anything is
\* started: no playout, no call of the evaluator, no progress line
C12_AnalyzeRejected ==
    [][(/\ TakesLine
        /\ Head(buf) # <<>>
        /\ parse(Head(buf)).command.val = "lz-analyze"
        /\ MalformedAnalyzeArgs(parse(Head(buf)).args))
          => /\ out' = <<ResponseLine("?", parse(Head(buf)).gtp_id.val, <<"syntax error">>),
                         NewLine>>
             /\ pc' = "idle"
             /\ tree' = NewTree
             /\ hist'.search = NoSearchHist]_vars

\* C13: fixed_handicap n succeeds exactly when move_history is empty and
\* 1 <= n <= 9; when it succeeds, on every board size boardsize accepts it
\* returns exactly n pairwise distinct locations, installs them as the Black
\* initial stones of the evaluator and leaves move_history empty
C13_FixedHandicap ==
    [][(/\ TakesLine
        /\ Head(buf) # <<>>
        /\ parse(Head(buf)).command.val = "fixed_handicap"
        /\ Len(parse(Head(buf)).args) = 1
        /\ int(parse(Head(buf)).args[1]).raised = "")
          => LET n == int(parse(Head(buf)).args[1]).val
                 expected == move_history = <<>> /\ 1 <= n /\ n <= 9
                 locations == out'[1].result
             IN  /\ out' # <<>>
                 /\ out'[1].header = "=" <=> expected
                 /\ expected =>
                        /\ Len(locations) = n
                        /\ \A i, j \in 1..Len(locations) :
                               i # j => locations[i] # locations[j]
                        /\ query_parameter'.initialStones =
                               [k \in 1..n |-> <<"B", locations[k]>>]
                        /\ move_history' = <<>>]_vars

\* the position of a location among the children of a node, in insertion order
ChildIndex(p, location) ==
    CHOOSE k \in 1..Len(tree[p].child_by_location) :
        tree[p].child_by_location[k] = location

ChildVisits(p, location) == tree[Append(p, location)].visits

SortedChildren(p) ==
    LET sorted == sorted_next_locations(tree, p)
        children == tree[p].child_by_location
    IN  /\ Len(sorted) = Len(children)
        /\ {sorted[k] : k \in 1..Len(sorted)} = {children[k] : k \in 1..Len(children)}
        /\ \A i, j \in 1..Len(sorted) :
               i < j =>
                   \/ ChildVisits(p, sorted[i]) > ChildVisits(p, sorted[j])
                   \/ /\ ChildVisits(p, sorted[i]) = ChildVisits(p, sorted[j])
                      /\ ChildIndex(p, sorted[i]) < ChildIndex(p, sorted[j])
        /\ best_next_location(tree, p) =
               IF children = <<>> THEN None ELSE Some(sorted[1])

\* C14: at every node of the tree sorted_next_locations is a permutation of the
\* child locations in non-increasing order of the children's visits, children
\* of equal visits staying in insertion order; best_next_location is its first
\* element, and None exactly when the node has no child
C14_SortedByVisits == \A p \in DOMAIN tree : SortedChildren(p)

C14_Witness ==
    \E p \in DOMAIN tree :
        /\ Len(tree[p].child_by_location) >= 2
        /\ sorted_next_locations(tree, p) # tree[p].child_by_location

\* the upper-case coordinates of a board of at most 19 lines
Coordinates == {col_name[c] \o ToString(r) : c \in 1..Len(col_name), r \in 1..19}

\* C15: every entry of move_history is a pair of a player B or W and a
\* location that is the lower-case pass or an upper-case coordinate
C15_HistoryEntries ==
    \A k \in 1..Len(move_history) :
        /\ move_history[k][1] \in {"B", "W"}
        /\ move_history[k][2] \in Coordinates \cup {"pass"}

IsPrefix(p, q) == Len(p) <= Len(q) /\ SubSeq(q, 1, Len(p)) = p

\* the player of the k-th move below the root of a search for `player`
PlayerAt(player, k) == IF k % 2 = 1 THEN player ELSE opponent(player)

\* a step that is one playout
OnePlayout == hist'.search.nplayouts = hist.search.nplayouts + 1

\* C16: one playout calls the evaluator with the moves before the root followed
\* by the moves of the descent, players alternating from the search player on;
\* it adds 1 to visits of every node from the root to the leaf's parent, sets
\* the leaf's visits to 1 and stores the evaluator's policy and winrate on it;
\* every other node and the moves before the root stay as they were
C16_PlayoutFrame ==
    [][OnePlayout =>
          LET leaf == hist'.search.leaf
              leaf_eval == hist'.search.eval.val
          IN  /\ hist'.search.query =
                     search.moves_before_root
                         \o [k \in 1..Len(leaf) |-> <<PlayerAt(search.player, k), leaf[k]>>]
              /\ \A k \in 1..Len(leaf) :
                     LET a == SubSeq(leaf, 1, k - 1)
                     IN  /\ a \in DOMAIN tree
                         /\ tree'[a].visits = tree[a].visits + 1
              /\ tree'[leaf].visits = 1
              /\ tree'[leaf].policy_by_location = Some(leaf_eval.policy_by_location)
              /\ tree'[leaf].black_winrate = Some(leaf_eval.black_winrate)
              /\ \A p \in DOMAIN tree : ~IsPrefix(p, leaf) => tree'[p] = tree[p]
              /\ DOMAIN tree' = DOMAIN tree \cup {leaf}
              /\ search'.moves_before_root = search.moves_before_root
              /\ move_history' = move_history]_vars

C16_Witness ==
    /\ hist.search.nplayouts >= 3
    /\ Len(hist.search.leaf) >= 2
    /\ hist.search.query # <<>>
    /\ \E p \in DOMAIN tree : ~IsPrefix(p, hist.search.leaf)

\* the playout that selects at the root for the first time: the second playout
\* on a root whose policy is not empty
FirstSelection ==
    /\ OnePlayout
    /\ hist.search.nplayouts = 1
    /\ is_expanded(tree[Root])

RootPrior(location) == PriorOf(tree[Root].policy_by_location.val, location)

RootPriority(location) == mcts_priority(tree, Root, search.player, location)

\* C17: at the first selection at the root all locations have equal priority
\* and the selected location is the first key of the root's policy, whatever
\* the priors are
C17_FirstKeySelected ==
    [][FirstSelection =>
          LET locations == Keys(tree[Root].policy_by_location.val)
          IN  /\ \A i, j \in 1..Len(locations) :
                     ~PriorityGreater(RootPriority(locations[i]), RootPriority(locations[j]))
              /\ hist'.search.leaf = <<locations[1]>>]_vars

\* C17, as the code has it: at the first selection the root has visits = 1, so
\* the priority of a location is its prior, and the selected location is the
\* first key, in iteration order, among the keys of the greatest prior
C17_GreatestPriorSelected ==
    [][FirstSelection =>
          LET locations == Keys(tree[Root].policy_by_location.val)
          IN  /\ tree[Root].visits = 1
              /\ \A i \in 1..Len(locations) :
                     RootPriority(locations[i]) =
                         [v |-> RZero, N |-> 1, q |-> RootPrior(locations[i])]
              /\ \E i \in 1..Len(locations) :
                     /\ hist'.search.leaf = <<locations[i]>>
                     /\ \A j \in 1..Len(locations) :
                            ~RLess(RootPrior(locations[i]), RootPrior(locations[j]))
                     /\ \A j \in 1..(i - 1) :
                            RLess(RootPrior(locations[j]), RootPrior(locations[i]))]_vars

C17_Witness ==
    /\ hist.search.nplayouts = 2
    /\ Len(hist.search.leaf) = 1
    /\ is_expanded(tree[Root])
    /\ hist.search.leaf[1] # Keys(tree[Root].policy_by_location.val)[1]

\* a step that is one turn of the loop of lz_analyze
AnalyzeTurn == pc = "an_playout" /\ pc' = "an_check"

\* the step prints one progress line
Reports == out' = Append(out, out'[Len(out')]) /\ out'[Len(out')].kind = "message"

\* C18: after each playout of lz_analyze a progress line is printed if and only
\* if the time has reached or passed the next report time (now >= next), and
\* the next report time is then now + interval; the first report follows the
\* first playout, no report is printed without a playout, and with interval 0
\* a report follows every playout
C18_ReportSchedule ==
    [][/\ AnalyzeTurn =>
              /\ Reports <=> search'.now >= search.next_message_time
              /\ Reports => search'.next_message_time = search'.now + search.interval
              /\ ~Reports =>
                     /\ out' = out
                     /\ search'.next_message_time = search.next_message_time
              /\ hist.search.nplayouts = 0 => Reports
              /\ search.interval = 0 => Reports
       /\ ~AnalyzeTurn => (out' = <<>> \/ ~Reports)]_vars

\* C19: in every progress line of lz-analyze the winrate of a root child is
\* that of the player to move at the root of the analysis, the player the
\* playouts select for, also when the color argument sets that player
C19_WinratePerspective ==
    [][(AnalyzeTurn /\ Reports) =>
          LET infos == out'[Len(out')].infos
          IN  \A k \in 1..Len(infos) :
                  infos[k].winrate =
                      lz_integerize(winrate_for_player(
                                        tree'[<<infos[k].move>>].black_winrate.val,
                                        search.player))]_vars

\* the node has received an evaluation
Evaluated(t, p) == p \in DOMAIN t /\ ~t[p].policy_by_location.isNone

\* C20: the evaluator is called at most once for a node: a node that has
\* received an evaluation is expanded and is never the leaf of a playout
\* again, a node given an empty policy included
C20_EvaluatedOnce ==
    /\ [](\A p \in DOMAIN tree : Evaluated(tree, p) => is_expanded(tree[p]))
    /\ [][OnePlayout => ~Evaluated(tree, hist'.search.leaf)]_vars

\* the visits of the first k children of a node, added up
RECURSIVE ChildVisitsSum(_, _)
ChildVisitsSum(p, k) ==
    IF k = 0
    THEN 0
    ELSE ChildVisits(p, tree[p].child_by_location[k]) + ChildVisitsSum(p, k - 1)

\* the shape of one node
NodeShape(p) ==
    /\ is_expanded(tree[p])
    /\ tree[p].visits >= 1
    /\ \A k \in 1..Len(tree[p].child_by_location) :
           InSeq(tree[p].child_by_location[k], Keys(tree[p].policy_by_location.val))
    /\ tree[p].visits = 1 + ChildVisitsSum(p, Len(tree[p].child_by_location))

\* after completed playouts whose evaluations had non-empty policies
AfterPlayouts == hist.search.nplayouts >= 1 /\ hist.search.allNonEmpty

\* C21: after every completed playout (policies non-empty) every node of the
\* tree is expanded with visits >= 1, every key of its children is a key of its
\* policy, its visits are 1 + the sum of its children's visits, and each
\* playout adds exactly one node to the tree
C21_TreeShape ==
    /\ [](AfterPlayouts => \A p \in DOMAIN tree : NodeShape(p))
    /\ [][(OnePlayout /\ hist'.search.allNonEmpty) =>
              Cardinality(DOMAIN tree') = Cardinality(DOMAIN tree) + 1]_vars

\* C21, as the code has it: the first playout expands the root make_node
\* created and adds no node, every later playout adds exactly one node, so the
\* tree has as many nodes as playouts were made; the shape of the nodes is as
\* above
C21_TreeShapeFromRoot ==
    /\ [](AfterPlayouts =>
              /\ \A p \in DOMAIN tree : NodeShape(p)
              /\ Cardinality(DOMAIN tree) = hist.search.nplayouts)
    /\ [][(OnePlayout /\ hist'.search.allNonEmpty) =>
              IF hist.search.nplayouts = 0
              THEN DOMAIN tree' = DOMAIN tree
              ELSE /\ DOMAIN tree \subseteq DOMAIN tree'
                   /\ Cardinality(DOMAIN tree') = Cardinality(DOMAIN tree) + 1]_vars

C21_Witness ==
    /\ hist.search.nplayouts = 4
    /\ hist.search.allNonEmpty
    /\ Cardinality(DOMAIN tree) = 4
    /\ \E p \in DOMAIN tree : Len(p) = 2
    /\ Len(tree[Root].child_by_location) >= 2

\* C22: known_command <name> is always answered with success, with the result
\* true when <name> is a key of command_table and false otherwise, and changes
\* no state
C22_KnownCommand ==
    [][(/\ TakesLine
        /\ Head(buf) # <<>>
        /\ parse(Head(buf)).command.val = "known_command"
        /\ Len(parse(Head(buf)).args) = 1)
          => LET p == parse(Head(buf))
                 text == IF InSeq(p.args[1], command_names) THEN "true" ELSE "false"
             IN  /\ out' = <<ResponseLine("=", p.gtp_id.val, <<text>>), NewLine>>
                 /\ Engine' = Engine
                 /\ pc' = "idle"]_vars

====
